---- MODULE Spec2Model ----
(***************************************************************************)
(* PixelMap: conversion of an image into a 50x70 grid of grey-shade        *)
(* indices.  The module models                                             *)
(*   - src/utils/imageProcessor.js  (isGreyscale, convertToPixelMap,       *)
(*     validatePixelMap, pixelMapToCSV), as operators;                     *)
(*   - src/api/convert.js           (base64ToImageData and the handler of  *)
(*     POST /convert), as a state machine.                                 *)
(*                                                                         *)
(* JavaScript values are records [k, v]: k is the kind of the value and v  *)
(* its payload.  The kinds "int", "frac" and "nan" are the values whose    *)
(* typeof is 'number': "int" holds the integer v, "frac" holds v + 1/2.    *)
(* Strings hold a sequence of one-character strings.  Arrays hold a        *)
(* sequence of JavaScript values.                                          *)
(***************************************************************************)
EXTENDS Integers, Sequences, FiniteSets, TLC

(***************************************************************************)
(* JavaScript values                                                       *)
(***************************************************************************)
JsInt(n) == [k |-> "int", v |-> n]
JsFrac(n) == [k |-> "frac", v |-> n]
JsNaN == [k |-> "nan", v |-> 0]
JsNull == [k |-> "null", v |-> 0]
JsUndefined == [k |-> "undefined", v |-> 0]
JsStr(s) == [k |-> "string", v |-> s]
JsArr(s) == [k |-> "array", v |-> s]

\* typeof x
TypeOf(x) ==
  CASE x.k \in {"int", "frac", "nan"} -> "number"
    [] x.k = "string" -> "string"
    [] x.k = "undefined" -> "undefined"
    [] OTHER -> "object"

\* Array.isArray(x)
IsArray(x) == x.k = "array"

\* Number.isInteger(x)
IsInteger(x) == x.k = "int"

\* x < c and x > c for a JavaScript number x and an integer c (false on NaN)
NumLt(x, c) == x.k \in {"int", "frac"} /\ x.v < c
NumGt(x, c) == (x.k = "int" /\ x.v > c) \/ (x.k = "frac" /\ x.v >= c)

\* !x : the falsy values
Falsy(x) ==
  \/ x.k \in {"undefined", "null", "nan"}
  \/ x.k = "int" /\ x.v = 0
  \/ x.k = "string" /\ x.v = <<>>

(***************************************************************************)
(* IEEE-754 double arithmetic, as far as the luminance formula needs it.   *)
(* A non-negative double below 2^12 whose unit in the last place is at     *)
(* least 2^-56 is the triple <<h, m, l>> of value                          *)
(*   (h * 2^44 + m * 2^22 + l) * 2^-56,   0 <= m, l < 2^22.             *)
(***************************************************************************)
Limb == 4194304

RECURSIVE BitLen(_)
BitLen(n) == IF n = 0 THEN 0 ELSE 1 + BitLen(n \div 2)

RECURSIVE Pow2(_)
Pow2(n) == IF n = 0 THEN 1 ELSE 2 * Pow2(n - 1)

\* carries of an exact triple whose limbs may exceed the limb size
Carry(t) ==
  LET l == t[3] % Limb
      m1 == t[2] + (t[3] \div Limb)
      m == m1 % Limb
      h == t[1] + (m1 \div Limb)
  IN <<h, m, l>>

\* round an exact value to 53 significant bits, ties to even
Round53(t) ==
  LET drop == BitLen(t[1]) - 9
  IN IF drop <= 0 THEN t
     ELSE LET q == Pow2(drop)
              rem == t[3] % q
              odd == (t[3] \div q) % 2 = 1
              up == rem * 2 > q \/ (rem * 2 = q /\ odd)
          IN Carry(<<t[1], t[2], (t[3] - rem) + (IF up THEN q ELSE 0)>>)

\* the double nearest to a * n, for a double a and an integer n in 0..255
DMul(a, n) == Round53(Carry(<<a[1] * n, a[2] * n, a[3] * n>>))

\* the double nearest to a + b
DAdd(a, b) == Round53(Carry(<<a[1] + b[1], a[2] + b[2], a[3] + b[3]>>))

\* an integer 0..255 as a double
DInt(n) == <<n * 4096, 0, 0>>

\* Math.floor(a / 256): the division by a power of two is exact
DFloorDiv256(a) == a[1] \div 1048576

\* the doubles nearest to 0.299, 0.587 and 0.114
D299 == <<1224, 2952790, 67108>>
D587 == <<2404, 1476395, 33552>>
D114 == <<466, 3959422, 4093641>>

(***************************************************************************)
(* Image data: [width, height, data], data a sequence of bytes; the byte   *)
(* JavaScript calls data[i] is data[i + 1] here.                           *)
(***************************************************************************)
\* the sequence s itself, with its elements computed once
Stored(s) == s \o <<>>

\* data[i] of a typed array: undefined outside the array
ByteAt(data, i) == IF i < Len(data) THEN JsInt(data[i + 1]) ELSE JsUndefined

\* r !== g for two reads of a typed array
StrictNe(a, b) == a # b

\* the same scan with the test r !== g alone
isGreyscaleRedGreen(imageData) ==
  \A y \in 0..(imageData.height - 1) : \A x \in 0..(imageData.width - 1) :
    LET idx == (y * imageData.width + x) * 4
        r == ByteAt(imageData.data, idx)
        g == ByteAt(imageData.data, idx + 1)
    IN ~StrictNe(r, g)

\* the same scan when the alpha channel is compared as well
isGreyscaleAlpha(imageData) ==
  \A y \in 0..(imageData.height - 1) : \A x \in 0..(imageData.width - 1) :
    LET idx == (y * imageData.width + x) * 4
        r == ByteAt(imageData.data, idx)
        g == ByteAt(imageData.data, idx + 1)
        b == ByteAt(imageData.data, idx + 2)
        a == ByteAt(imageData.data, idx + 3)
    IN ~(StrictNe(r, g) \/ StrictNe(g, b) \/ StrictNe(b, a))

isGreyscale(imageData) ==
  \A y \in 0..(imageData.height - 1) : \A x \in 0..(imageData.width - 1) :
    LET idx == (y * imageData.width + x) * 4
        r == ByteAt(imageData.data, idx)
        g == ByteAt(imageData.data, idx + 1)
        b == ByteAt(imageData.data, idx + 2)
    IN ~(StrictNe(r, g) \/ StrictNe(g, b))

\* grey as the mean of the three channels of a pixel that is not greyscale
GreyAverage(data, idx, alreadyGreyscale) ==
  LET r == ByteAt(data, idx)
      g == ByteAt(data, idx + 1)
      b == ByteAt(data, idx + 2)
  IN IF alreadyGreyscale
     THEN IF r.k = "int" THEN [nan |-> FALSE, d |-> DInt(r.v)]
                         ELSE [nan |-> TRUE, d |-> DInt(0)]
     ELSE IF r.k = "int" /\ g.k = "int" /\ b.k = "int"
          THEN [nan |-> FALSE, d |-> DInt((r.v + g.v + b.v) \div 3)]
          ELSE [nan |-> TRUE, d |-> DInt(0)]

\* grey of one pixel: a double, or NaN when a channel read is undefined
Grey(data, idx, alreadyGreyscale) ==
  LET r == ByteAt(data, idx)
      g == ByteAt(data, idx + 1)
      b == ByteAt(data, idx + 2)
  IN IF alreadyGreyscale
     THEN IF r.k = "int" THEN [nan |-> FALSE, d |-> DInt(r.v)]
                         ELSE [nan |-> TRUE, d |-> DInt(0)]
     ELSE IF r.k = "int" /\ g.k = "int" /\ b.k = "int"
          THEN [nan |-> FALSE,
                d |-> DAdd(DAdd(DMul(D299, r.v), DMul(D587, g.v)), DMul(D114, b.v))]
          ELSE [nan |-> TRUE, d |-> DInt(0)]

Min(a, b) == IF a < b THEN a ELSE b
Max(a, b) == IF a > b THEN a ELSE b

\* Math.floor(grey * 10 / 256), the scale without its inversion
ShadeDirect(grey) == DFloorDiv256(DMul(grey, 10))

\* const shade = 9 - Math.floor(grey * 10 / 256)
Shade(grey) == 9 - DFloorDiv256(DMul(grey, 10))

\* the shades counted from 1: finalShade + 1
FinalShadeOneBased(grey) ==
  IF grey.nan THEN JsNaN ELSE JsInt(Min(Max(Shade(grey.d), 0), 9) + 1)

\* const finalShade = Math.min(Math.max(shade, 0), 9)   (NaN stays NaN)
FinalShade(grey) ==
  IF grey.nan THEN JsNaN ELSE JsInt(Min(Max(Shade(grey.d), 0), 9))

\* Uint8ClampedArray store: round to nearest, ties to even, clamp to 0..255
ToUint8Clamped(num, den) ==
  LET fl == num \div den
      r2 == 2 * (num % den)
      n == IF r2 > den \/ (r2 = den /\ fl % 2 = 1) THEN fl + 1 ELSE fl
  IN Min(Max(n, 0), 255)

\* finalShade * 255 / 9 as stored into data, without the inversion
DisplayGreyDirect(finalShade) == ToUint8Clamped(finalShade * 255, 9)

\* const displayGrey = 255 - (finalShade * 255 / 9), as stored into data.
\* The exact quotient has fractional part 0, 1/3 or 2/3, so the rounding of
\* the double division cannot move it across a tie.
DisplayGrey(finalShade) == ToUint8Clamped(255 * 9 - finalShade * 255, 9)

\* the rows when the outer loop stops one row early
PixelRowsShort(final, width, height) ==
  Stored([y \in 1..(height - 1) |->
            JsArr(Stored([x \in 1..width |-> final[(y - 1) * width + x]]))])

\* the rows pushed by the loops over y < height and x < width, for the
\* finalShade of each pixel in the order of the loops
PixelRows(final, width, height) ==
  Stored([y \in 1..height |->
            JsArr(Stored([x \in 1..width |-> final[(y - 1) * width + x]]))])

convertToPixelMap(imageData, width, height) ==
  LET data == imageData.data
      alreadyGreyscale == isGreyscale(imageData)
      \* finalShade of the pixel at idx = 4 * (p - 1)
      final == Stored([p \in 1..(width * height) |->
                         FinalShade(Grey(data, (p - 1) * 4, alreadyGreyscale))])
      pixelMap == PixelRows(final, width, height)
      \* data[idx..idx+3] = displayGrey, displayGrey, displayGrey, 255;
      \* a store outside the typed array changes nothing, a store of NaN
      \* stores 0.  Every pixel is read before it is written and is visited
      \* once, so the reads see the bytes of the input.
      out == Stored([i \in 1..Len(data) |->
                LET p == ((i - 1) \div 4) + 1
                IN IF p > width * height THEN data[i]
                   ELSE IF (i - 1) % 4 = 3 THEN 255
                   ELSE IF final[p].k = "int" THEN DisplayGrey(final[p].v)
                   ELSE 0])
  IN [pixelMap |-> JsArr(pixelMap),
      greyscaleImageData |-> [data |-> out, width |-> width, height |-> height]]

(***************************************************************************)
(* validatePixelMap.  Its outcome is "true", "false", or "TypeError" when  *)
(* a property of null or undefined is read.                                *)
(***************************************************************************)
\* x.length !== n
LengthNe(x, n) ==
  CASE x.k \in {"null", "undefined"} -> "TypeError"
    [] x.k \in {"array", "string"} -> IF Len(x.v) # n THEN "true" ELSE "false"
    [] OTHER -> "true"

\* the indices i < x.length of the loops
Indices(x) == IF x.k \in {"array", "string"} THEN 1..Len(x.v) ELSE {}

\* x[i - 1] for an index of the loops
Index(x, i) == IF x.k = "string" THEN JsStr(<<x.v[i]>>) ELSE x.v[i]

\* x.length !== n without Array.isArray
LengthOnly(x, n) == LengthNe(x, n)
\* !Array.isArray(x) || x.length !== n
NotArrayOfLength(x, n) == IF ~IsArray(x) THEN "true" ELSE LengthNe(x, n)

\* typeof value !== 'number' || value < 0 || value > 9 || !Number.isInteger(value)
BadValue(value) ==
  TypeOf(value) # "number" \/ NumLt(value, 0) \/ NumGt(value, 9) \/ ~IsInteger(value)

\* the body of the loop over the rows: "next" when the loop goes on
CheckRow(row, expectedWidth) ==
  LET d == NotArrayOfLength(row, expectedWidth)
  IN CASE d = "TypeError" -> "TypeError"
       [] d = "true" -> "false"
       [] OTHER -> IF \E x \in Indices(row) : BadValue(Index(row, x))
                   THEN "false" ELSE "next"

validatePixelMap(pixelMap, expectedWidth, expectedHeight) ==
  LET d == NotArrayOfLength(pixelMap, expectedHeight)
  IN CASE d = "TypeError" -> "TypeError"
       [] d = "true" -> "false"
       [] OTHER ->
          LET stop == {y \in Indices(pixelMap) :
                         CheckRow(Index(pixelMap, y), expectedWidth) # "next"}
          IN IF stop = {} THEN "true"
             ELSE CheckRow(Index(pixelMap, CHOOSE y \in stop : \A z \in stop : y <= z),
                           expectedWidth)

(***************************************************************************)
(* pixelMapToCSV.  Text is a sequence of one-character strings.            *)
(***************************************************************************)
Digit(d) == <<"0", "1", "2", "3", "4", "5", "6", "7", "8", "9">>[d + 1]

\* String(n) for an integer n
RECURSIVE NatToString(_)
NatToString(n) ==
  IF n < 10 THEN <<Digit(n)>> ELSE NatToString(n \div 10) \o <<Digit(n % 10)>>

IntToString(n) == IF n < 0 THEN <<"-">> \o NatToString(0 - n) ELSE NatToString(n)

\* parts[lo] \o ... \o parts[hi]
RECURSIVE Concat(_, _, _)
Concat(parts, lo, hi) ==
  IF lo > hi THEN <<>>
  ELSE IF lo = hi THEN parts[lo]
  ELSE LET mid == (lo + hi) \div 2
       IN Concat(parts, lo, mid) \o Concat(parts, mid + 1, hi)

\* String(x) of a JavaScript value, as Array.prototype.join uses it:
\* null and undefined give the empty string
RECURSIVE ElementToString(_)
ElementToString(x) ==
  CASE x.k = "int" -> IntToString(x.v)
    [] x.k = "frac" -> IF x.v = -1 THEN <<"-", "0", ".", "5">>
                       ELSE IF x.v < 0 THEN IntToString(x.v + 1) \o <<".", "5">>
                       ELSE IntToString(x.v) \o <<".", "5">>
    [] x.k = "nan" -> <<"N", "a", "N">>
    [] x.k = "string" -> x.v
    [] x.k = "array" ->
         Concat([i \in 1..Len(x.v) |->
                   IF i = 1 THEN ElementToString(x.v[i])
                   ELSE <<",">> \o ElementToString(x.v[i])], 1, Len(x.v))
    [] OTHER -> <<>>

\* row.join(',')
Join(row) ==
  Concat([i \in 1..Len(row.v) |->
            IF i = 1 THEN ElementToString(row.v[i])
            ELSE <<",">> \o ElementToString(row.v[i])], 1, Len(row.v))

\* new Date().toLocaleString('fr-FR') for the clock reading t
LocaleString(t) == NatToString(t)

TitleLine == <<"C", "a", "r", "t", "e", " ", "d", "e", " ", "P", "i", "x", "e", "l", "s", "\n">>
DimensionsLabel == <<"D", "i", "m", "e", "n", "s", "i", "o", "n", "s", ":", " ">>
NuancesLine == <<"N", "u", "a", "n", "c", "e", "s", ":", " ", "1", "0", "\n">>
DateLabel == <<"D", "a", "t", "e", ":", " ">>

\* the text that the loop over the rows appends to csvContent
CsvRows(pixelMap) ==
  Concat([y \in 1..Len(pixelMap.v) |-> Join(pixelMap.v[y]) \o <<"\n">>],
         1, Len(pixelMap.v))

pixelMapToCSV(pixelMap, t) ==
  TitleLine
  \o DimensionsLabel \o IntToString(Len(pixelMap.v[1].v)) \o <<"x">>
     \o IntToString(Len(pixelMap.v)) \o <<"\n">>
  \o NuancesLine
  \o DateLabel \o LocaleString(t) \o <<"\n", "\n">>
  \o CsvRows(pixelMap)

(***************************************************************************)
(* Bounds of the model                                                     *)
(***************************************************************************)
\* the integers a request may carry as shades
MinShades == 7
MaxShades == 14
\* the readings of the clock
MaxTime == 2

Times == 1..MaxTime
\* the expected width and height of a map given to validatePixelMap alone
MaxDim == 2
\* the changes made to such a map before it is validated
MaxDefects == 1
\* the width and height of an image given to convertToPixelMap alone
MaxImg == 2
\* the bytes that the buffer of an image may lack at its end
MaxShort == 4
\* the files selected in the front end
MaxSelect == 2

(***************************************************************************)
(* Requests.  The body of POST /convert is { imageData, shades, format }.  *)
(* Base64 text is a string of tokens: an optional data-URL prefix followed *)
(* by the payload, which names the encoded image.                          *)
(***************************************************************************)
PngPrefix == "data:image/png;base64,"
TextPrefix == "data:text/plain;base64,"

\* /^data:image\/\w+;base64,/ matches at the start of the string
MatchesDataUrl(tok) == tok \in {PngPrefix, "data:image/jpeg;base64,"}

\* the pixels (r, g, b, a) of the images the decoder knows, row by row
White == <<255, 255, 255, 255>>
Black == <<0, 0, 0, 255>>
Red == <<255, 0, 0, 255>>
Mid == <<128, 128, 128, 255>>
Edge == <<1, 57, 153, 255>>

Flatten(pixels) ==
  Stored([i \in 1..(4 * Len(pixels)) |-> pixels[((i - 1) \div 4) + 1][((i - 1) % 4) + 1]])

Picture(w, h, pixels) == [width |-> w, height |-> h, data |-> Flatten(pixels)]

SourceImages ==
  [white |-> Picture(1, 1, <<White>>),
   greys |-> Picture(2, 2, <<White, Mid, Mid, Black>>),
   red |-> Picture(2, 2, <<Red, Red, Red, Red>>),
   mixed |-> Picture(3, 1, <<Edge, Mid, Black>>)]

ImageDataInputs ==
  {JsUndefined, JsNull, JsStr(<<>>), JsInt(7),
   JsStr(<<PngPrefix>>), JsStr(<<"garbage">>), JsStr(<<TextPrefix, "white">>),
   JsStr(<<"white">>), JsStr(<<PngPrefix, "greys">>), JsStr(<<"red">>),
   JsStr(<<"mixed">>)}

ShadesInputs ==
  {JsUndefined, JsNull} \cup {JsInt(n) : n \in MinShades..MaxShades}
  \cup {JsFrac(8), JsFrac(12)}
  \cup {JsStr(<<"1", "0">>), JsStr(<<"a", "b", "c">>),
        JsStr(<<" ", "9">>), JsStr(<<"1", "2", "a", "b", "c">>)}

StrJson == <<"j", "s", "o", "n">>
StrCsv == <<"c", "s", "v">>
StrPdfText == <<"p", "d", "f", "-", "t", "e", "x", "t">>
StrPdf == <<"p", "d", "f">>
StrXml == <<"x", "m", "l">>

FormatInputs ==
  {JsUndefined, JsNull, JsStr(StrJson), JsStr(StrCsv), JsStr(StrPdfText),
   JsStr(StrPdf), JsStr(StrXml)}

\* a destructuring default: used when the property is undefined
Default(x, d) == IF x.k = "undefined" THEN d ELSE x

(***************************************************************************)
(* parseInt                                                                *)
(***************************************************************************)
\* String(x)
JsString(x) ==
  CASE x.k = "null" -> <<"n", "u", "l", "l">>
    [] x.k = "undefined" -> <<"u", "n", "d", "e", "f", "i", "n", "e", "d">>
    [] OTHER -> ElementToString(x)

IsDigit(c) == c \in {"0", "1", "2", "3", "4", "5", "6", "7", "8", "9"}
DigitValue(c) == CHOOSE d \in 0..9 : Digit(d) = c

RECURSIVE SkipSpaces(_)
SkipSpaces(s) == IF s # <<>> /\ Head(s) \in {" ", "\n", "\t"} THEN SkipSpaces(Tail(s)) ELSE s

\* the value of the leading digits of s, after the value acc of earlier ones
RECURSIVE DigitsValue(_, _)
DigitsValue(s, acc) ==
  IF s # <<>> /\ IsDigit(Head(s)) THEN DigitsValue(Tail(s), acc * 10 + DigitValue(Head(s)))
  ELSE acc

\* parseInt(x), radix 10 (no input starts with 0x)
parseInt(x) ==
  LET s == SkipSpaces(JsString(x))
      neg == s # <<>> /\ Head(s) = "-"
      t == IF s # <<>> /\ Head(s) \in {"-", "+"} THEN Tail(s) ELSE s
  IN IF t = <<>> \/ ~IsDigit(Head(t)) THEN JsNaN
     ELSE JsInt(IF neg THEN 0 - DigitsValue(t, 0) ELSE DigitsValue(t, 0))

(***************************************************************************)
(* The handler of POST /convert (src/api/convert.js).  It runs up to the   *)
(* await of base64ToImageData in one step and from there to its response   *)
(* in a second step.                                                       *)
(***************************************************************************)
Requests == {"a", "b"}

VARIABLES
  pc,          \* per request: "idle", "decoding" or "done"
  body,        \* per request: req.body
  shadeCount,  \* per request: the handler's shadeCount
  loading,     \* per request: what base64ToImageData awaits
  decodes,     \* per request: the number of calls of loadImage
  conv,        \* per request: what convertToPixelMap returned
  valid,       \* per request: what validatePixelMap returned
  res,         \* per request: the responses sent, in order
  vMap,        \* a call of validatePixelMap: its pixelMap
  vWidth,      \* its expectedWidth
  vHeight,     \* its expectedHeight
  vShades,     \* the shadeCount of the request the map is validated for
  vDefects,    \* the number of changes made to the map before the call
  vResult,     \* what the call returned, "none" before it
  cImage,      \* a call of convertToPixelMap or isGreyscale: its imageData
  cOriginal,   \* the copy of imageData.data that the caller made before it
  cWidth,      \* the width of the call
  cHeight,     \* the height of the call
  cGrey,       \* what isGreyscale(imageData) returned, "none" before it
  cOut,        \* what convertToPixelMap returned
  cAgain,      \* what convertToPixelMap returned for the display buffer
  tMap,        \* a call of pixelMapToText: its pixelMap
  tText,       \* the text it returned, empty before it
  xImage,      \* the imageData given to both versions of convertToPixelMap
  xWidth,      \* the width of the calls
  xHeight,     \* the height of the calls
  xMain,       \* what convertToPixelMap of utils/imageProcessor.js returned
  xMainValid,  \* what validatePixelMap returned for its pixel map
  xVariant,    \* what the pass-through convertToPixelMap returned
  xVariantValid, \* what validatePixelMap returned for its pixel map
  currentImage,  \* front end: let currentImage, as the number of the
                 \* selection whose Image it is, 0 for null
  storedPixelMap,  \* front end: let pixelMap, null before a response
  storedGreyscale, \* front end: let greyscaleImageData, null before a response
  selections     \* front end: the file selections made, with their progress

handlerVars == <<pc, body, shadeCount, loading, decodes, conv, valid, res>>
validateVars == <<vMap, vWidth, vHeight, vShades, vDefects, vResult>>
convertVars == <<cImage, cOriginal, cWidth, cHeight, cGrey, cOut, cAgain>>
textVars == <<tMap, tText>>
variantVars == <<xImage, xWidth, xHeight, xMain, xMainValid, xVariant, xVariantValid>>
frontVars == <<currentImage, storedPixelMap, storedGreyscale, selections>>
vars == <<handlerVars, validateVars, convertVars, textVars, variantVars, frontVars>>

targetWidth == 50
targetHeight == 70

NoBody == [imageData |-> JsUndefined, shades |-> JsUndefined, format |-> JsUndefined]
NoConv == [pixelMap |-> JsUndefined, greyscaleImageData |-> JsUndefined]

Bodies == [imageData : ImageDataInputs, shades : ShadesInputs, format : FormatInputs]

\* if (imageData === undefined)
MissingImageDataStrict(imageData) == imageData.k = "undefined"
\* if (!imageData)
MissingImageData(imageData) == Falsy(imageData)

\* isNaN(shadeCount) || shadeCount < 9 || shadeCount > 12
InvalidShades(sc) == sc.k = "nan" \/ NumLt(sc, 9) \/ NumGt(sc, 12)

\* ['json', 'csv']
RecognizedFormats == {JsStr(StrJson), JsStr(StrCsv)}

\* !['json', 'csv'].includes(format)
InvalidFormat(format) == format \notin RecognizedFormats

\* res.status(status).json({ success: false, error: { code, message } })
ErrorResponse(status, code, message) ==
  [status |-> status, type |-> "application/json",
   body |-> [success |-> FALSE, error |-> [code |-> code, message |-> message]]]

\* base64Data.replace(/^data:image\/\w+;base64,/, '')
StripDataUrl(base64Data) ==
  IF base64Data # <<>> /\ MatchesDataUrl(Head(base64Data)) THEN Tail(base64Data)
  ELSE base64Data

\* base64ToImageData up to its await: a TypeError when imageData has no
\* replace method, and otherwise the image given to loadImage
StartDecode(imageData) ==
  IF imageData.k # "string" THEN [thrown |-> TRUE, base64Image |-> <<>>]
  ELSE [thrown |-> FALSE, base64Image |-> StripDataUrl(imageData.v)]

\* loadImage resolves for the payloads that encode an image
Decodable(base64Image) == Len(base64Image) = 1 /\ base64Image[1] \in DOMAIN SourceImages

\* ctx.drawImage(img, 0, 0, width, height) without smoothing, and
\* ctx.getImageData(0, 0, width, height): nearest-neighbour sampling
Resample(img, width, height) ==
  [width |-> width, height |-> height,
   data |-> Stored([i \in 1..(width * height * 4) |->
               LET p == (i - 1) \div 4
                   sx == ((2 * (p % width) + 1) * img.width) \div (2 * width)
                   sy == ((2 * (p \div width) + 1) * img.height) \div (2 * height)
               IN img.data[(sy * img.width + sx) * 4 + ((i - 1) % 4) + 1]])]

HandlerInit ==
  /\ pc = [r \in Requests |-> "idle"]
  /\ body = [r \in Requests |-> NoBody]
  /\ shadeCount = [r \in Requests |-> JsUndefined]
  /\ loading = [r \in Requests |-> [thrown |-> FALSE, base64Image |-> <<>>]]
  /\ decodes = [r \in Requests |-> 0]
  /\ conv = [r \in Requests |-> NoConv]
  /\ valid = [r \in Requests |-> "none"]
  /\ res = [r \in Requests |-> <<>>]

\* no call of validatePixelMap outside the handler
ValidateIdle ==
  /\ vMap = JsUndefined
  /\ vWidth = 0
  /\ vHeight = 0
  /\ vShades = 0
  /\ vDefects = 0
  /\ vResult = "none"

\* no call of convertToPixelMap or isGreyscale outside the handler
ConvertIdle ==
  /\ cImage = JsUndefined
  /\ cOriginal = <<>>
  /\ cWidth = 0
  /\ cHeight = 0
  /\ cGrey = "none"
  /\ cOut = NoConv
  /\ cAgain = NoConv

\* no call of pixelMapToText
TextIdle ==
  /\ tMap = JsUndefined
  /\ tText = <<>>

\* no call of the two versions of convertToPixelMap side by side
VariantIdle ==
  /\ xImage = JsUndefined
  /\ xWidth = 0
  /\ xHeight = 0
  /\ xMain = NoConv
  /\ xMainValid = "none"
  /\ xVariant = NoConv
  /\ xVariantValid = "none"

\* the page of the front end is not open
FrontIdle ==
  /\ currentImage = 0
  /\ storedPixelMap = JsNull
  /\ storedGreyscale = JsNull
  /\ selections = <<>>

Init ==
  HandlerInit /\ ValidateIdle /\ ConvertIdle /\ TextIdle /\ VariantIdle /\ FrontIdle

\* a handler that sends its response a second time
RespondTwice(r, response) ==
  /\ res' = [res EXCEPT ![r] = Append(Append(@, response), response)]
  /\ pc' = [pc EXCEPT ![r] = "done"]

\* the handler answers and returns
Respond(r, response) ==
  /\ res' = [res EXCEPT ![r] = Append(@, response)]
  /\ pc' = [pc EXCEPT ![r] = "done"]

\* the same handler with the test of the format before that of the shades
ReceiveFormatFirst(r, b) ==
  /\ pc[r] = "idle"
  /\ body' = [body EXCEPT ![r] = b]
  /\ LET imageData == b.imageData
         shades == Default(b.shades, JsInt(10))
         format == Default(b.format, JsStr(StrJson))
         sc == parseInt(shades)
     IN IF MissingImageData(imageData)
        THEN /\ Respond(r, ErrorResponse(400, "MISSING_IMAGE_DATA",
                                         "Les donnees de l'image sont requises"))
             /\ UNCHANGED <<shadeCount, loading, decodes>>
        ELSE IF InvalidFormat(format)
        THEN /\ Respond(r, ErrorResponse(400, "INVALID_FORMAT",
                                         "Le format doit etre json ou csv"))
             /\ shadeCount' = [shadeCount EXCEPT ![r] = sc]
             /\ UNCHANGED <<loading, decodes>>
        ELSE IF InvalidShades(sc)
        THEN /\ Respond(r, ErrorResponse(400, "INVALID_SHADES",
                                         "Le nombre de nuances doit etre entre 9 et 12"))
             /\ shadeCount' = [shadeCount EXCEPT ![r] = sc]
             /\ UNCHANGED <<loading, decodes>>
        ELSE /\ pc' = [pc EXCEPT ![r] = "decoding"]
             /\ shadeCount' = [shadeCount EXCEPT ![r] = sc]
             /\ loading' = [loading EXCEPT ![r] = StartDecode(imageData)]
             /\ decodes' = [decodes EXCEPT ![r] =
                              IF StartDecode(imageData).thrown THEN @ ELSE @ + 1]
             /\ UNCHANGED res
  /\ UNCHANGED <<conv, valid, validateVars, convertVars, textVars, variantVars, frontVars>>

\* router.post('/convert', ...) from the request to the await
Receive(r, b) ==
  /\ pc[r] = "idle"
  /\ body' = [body EXCEPT ![r] = b]
  /\ LET imageData == b.imageData
         shades == Default(b.shades, JsInt(10))
         format == Default(b.format, JsStr(StrJson))
         sc == parseInt(shades)
     IN IF MissingImageData(imageData)
        THEN /\ Respond(r, ErrorResponse(400, "MISSING_IMAGE_DATA",
                                         "Les donnees de l'image sont requises"))
             /\ UNCHANGED <<shadeCount, loading, decodes>>
        ELSE IF InvalidShades(sc)
        THEN /\ Respond(r, ErrorResponse(400, "INVALID_SHADES",
                                         "Le nombre de nuances doit etre entre 9 et 12"))
             /\ shadeCount' = [shadeCount EXCEPT ![r] = sc]
             /\ UNCHANGED <<loading, decodes>>
        ELSE IF InvalidFormat(format)
        THEN /\ Respond(r, ErrorResponse(400, "INVALID_FORMAT",
                                         "Le format doit etre json ou csv"))
             /\ shadeCount' = [shadeCount EXCEPT ![r] = sc]
             /\ UNCHANGED <<loading, decodes>>
        ELSE /\ pc' = [pc EXCEPT ![r] = "decoding"]
             /\ shadeCount' = [shadeCount EXCEPT ![r] = sc]
             /\ loading' = [loading EXCEPT ![r] = StartDecode(imageData)]
             /\ decodes' = [decodes EXCEPT ![r] =
                              IF StartDecode(imageData).thrown THEN @ ELSE @ + 1]
             /\ UNCHANGED res
  /\ UNCHANGED <<conv, valid, validateVars, convertVars, textVars, variantVars, frontVars>>

\* the image that a request awaits when the handlers keep it in one place
\* for all requests
PendingShared(r) == IF pc["a"] = "decoding" THEN loading["a"] ELSE loading[r]
\* the image that the request r awaits: base64Data and base64Image are
\* locals of the call of base64ToImageData made for r
Pending(r) == loading[r]

\* a catch block that answers as for a request without image data
FailBadRequest(r) ==
  /\ Respond(r, ErrorResponse(400, "MISSING_IMAGE_DATA",
                              "Les donnees de l'image sont requises"))
  /\ UNCHANGED <<body, shadeCount, loading, decodes, conv, valid, validateVars, convertVars, textVars, variantVars, frontVars>>
\* the catch block of the handler
Fail(r) ==
  /\ Respond(r, ErrorResponse(500, "PROCESSING_ERROR",
                              "Une erreur s'est produite lors du traitement de l'image"))
  /\ UNCHANGED <<body, shadeCount, loading, decodes, conv, valid, validateVars, convertVars, textVars, variantVars, frontVars>>

\* base64ToImageData rejects: imageData is no string or encodes no image
DecodeFails(r) ==
  /\ pc[r] = "decoding"
  /\ Pending(r).thrown \/ ~Decodable(Pending(r).base64Image)
  /\ Fail(r)

\* what base64ToImageData resolves with for the image named by the payload:
\* the image drawn at the target size
LoadedImage == [name \in DOMAIN SourceImages |->
                  Resample(SourceImages[name], targetWidth, targetHeight)]

\* convertToPixelMap(originalImageData, targetWidth, targetHeight) for each
\* image that base64ToImageData can resolve with
Converted == [name \in DOMAIN SourceImages |->
                convertToPixelMap(LoadedImage[name], targetWidth, targetHeight)]

\* the same response with the default shade count in place of shadeCount
JsonResponseTen(pixelMap, sc, t) ==
  [status |-> 200, type |-> "application/json",
   body |-> [success |-> TRUE,
             data |-> [pixelMap |-> pixelMap,
                       dimensions |-> [width |-> targetWidth, height |-> targetHeight],
                       shades |-> JsInt(10),
                       timestamp |-> t]]]
\* res.status(200).json({ success: true, data: { ... } }) at the time t
JsonResponse(pixelMap, sc, t) ==
  [status |-> 200, type |-> "application/json",
   body |-> [success |-> TRUE,
             data |-> [pixelMap |-> pixelMap,
                       dimensions |-> [width |-> targetWidth, height |-> targetHeight],
                       shades |-> sc,
                       timestamp |-> t]]]

\* res.status(200).send(csvContent) for the CSV made at the time t
CsvResponse(pixelMap, t) ==
  [status |-> 200, type |-> "text/csv", body |-> pixelMapToCSV(pixelMap, t)]

\* if (!validatePixelMap(...)) return res.status(500)... ; a TypeError of
\* validatePixelMap goes to the catch block
Rejected(v) == v # "true"

\* the handler from the await to its response, for the result c of
\* convertToPixelMap on the image data that base64ToImageData resolved with
Finish(r, c) ==
  LET format == Default(body[r].format, JsStr(StrJson))
      v == validatePixelMap(c.pixelMap, targetWidth, targetHeight)
  IN /\ conv' = [conv EXCEPT ![r] = c]
     /\ valid' = [valid EXCEPT ![r] = v]
     /\ IF Rejected(v)
        THEN Respond(r, ErrorResponse(500, "PROCESSING_ERROR",
                        IF v = "false" THEN "La carte de pixels generee est invalide"
                        ELSE "Une erreur s'est produite lors du traitement de l'image"))
        ELSE IF format = JsStr(StrCsv)
        THEN \E t \in Times : Respond(r, CsvResponse(c.pixelMap, t))
        ELSE \E t \in Times : Respond(r, JsonResponse(c.pixelMap, shadeCount[r], t))
     /\ UNCHANGED <<body, shadeCount, loading, decodes, validateVars, convertVars, textVars, variantVars, frontVars>>

\* base64ToImageData resolves with the image at the target size
DecodeSucceeds(r) ==
  /\ pc[r] = "decoding"
  /\ ~Pending(r).thrown /\ Decodable(Pending(r).base64Image)
  /\ Finish(r, Converted[Pending(r).base64Image[1]])

Next ==
  \/ \E b \in Bodies : Receive("a", b)
  \/ DecodeFails("a")
  \/ DecodeSucceeds("a")

Spec == Init /\ [][Next]_vars

(***************************************************************************)
(* The handler of the serverless build, which answers with a generated     *)
(* pixel map instead of decoding the image.                                *)
(***************************************************************************)
\* ['json', 'csv', 'pdf']
MockFormats == {JsStr(StrJson), JsStr(StrCsv), JsStr(StrPdf)}

\* the values of Math.floor(Math.random() * shadeCount) that are drawn
MockShades(sc) == {0, sc - 1}

\* the generated map when the random values alternate between f and g
MockPixelMap(f, g) ==
  JsArr([y \in 1..70 |->
           JsArr([x \in 1..50 |-> JsInt(IF (x + y) % 2 = 0 THEN f ELSE g)])])

PdfTitle ==
  <<"C", "a", "r", "t", "e", " ", "d", "e", " ", "P", "i", "x", "e", "l",
    "s", " ", "(", "P", "D", "F", ")", "\n", "D", "i", "m", "e", "n", "s",
    "i", "o", "n", "s", ":", " ", "5", "0", "x", "7", "0", "\n">>
PdfNuancesLabel == <<"N", "u", "a", "n", "c", "e", "s", ":", " ">>
PdfPages ==
  <<"\n", "\n", "P", "a", "g", "e", " ", "1", ":", " ", "I", "m", "a", "g",
    "e", " ", "e", "n", " ", "P", "i", "x", "e", "l", "s", " ", "G", "r",
    "i", "s", "\n", "[", "I", "m", "a", "g", "e", " ", "d", "a", "t", "a",
    " ", "w", "o", "u", "l", "d", " ", "b", "e", " ", "h", "e", "r", "e",
    " ", "i", "n", " ", "a", " ", "r", "e", "a", "l", " ", "i", "m", "p",
    "l", "e", "m", "e", "n", "t", "a", "t", "i", "o", "n", "]", "\n", "\n",
    "P", "a", "g", "e", " ", "2", ":", " ", "C", "a", "r", "t", "e", " ",
    "d", "e", " ", "P", "i", "x", "e", "l", "s", "\n">>

\* pixelMap.map(row => row.join(' ')).join('\n')
PdfRows(pixelMap) ==
  Concat([y \in 1..Len(pixelMap.v) |->
            LET row == pixelMap.v[y]
                text == Concat([i \in 1..Len(row.v) |->
                                  IF i = 1 THEN ElementToString(row.v[i])
                                  ELSE <<" ">> \o ElementToString(row.v[i])],
                               1, Len(row.v))
            IN IF y = 1 THEN text ELSE <<"\n">> \o text],
         1, Len(pixelMap.v))

\* res.status(200).send(pdfContent) for the text made at the time t
PdfResponse(pixelMap, sc, t) ==
  [status |-> 200, type |-> "application/pdf",
   body |-> PdfTitle \o PdfNuancesLabel \o ElementToString(sc) \o <<"\n">>
            \o DateLabel \o NatToString(t) \o PdfPages \o PdfRows(pixelMap)]

\* the same test without its negation
MockRejectedInverted(v) == v = "true"
\* if (!validatePixelMap(pixelMap, 50, 70, shadeCount))
MockRejected(v) == v # "true"

\* the whole handler, which has no await
MockConvert(r, b) ==
  /\ pc[r] = "idle"
  /\ body' = [body EXCEPT ![r] = b]
  /\ LET imageData == b.imageData
         shades == Default(b.shades, JsInt(12))
         format == Default(b.format, JsStr(StrJson))
         sc == parseInt(shades)
     IN IF MissingImageData(imageData)
        THEN /\ Respond(r, ErrorResponse(400, "MISSING_IMAGE_DATA",
                                         "Les donnees de l'image sont requises"))
             /\ UNCHANGED <<shadeCount, conv, valid>>
        ELSE IF InvalidShades(sc)
        THEN /\ Respond(r, ErrorResponse(400, "INVALID_SHADES",
                                         "Le nombre de nuances doit etre entre 9 et 12"))
             /\ shadeCount' = [shadeCount EXCEPT ![r] = sc]
             /\ UNCHANGED <<conv, valid>>
        ELSE IF format \notin MockFormats
        THEN /\ Respond(r, ErrorResponse(400, "INVALID_FORMAT",
                                         "Le format doit etre json, csv ou pdf"))
             /\ shadeCount' = [shadeCount EXCEPT ![r] = sc]
             /\ UNCHANGED <<conv, valid>>
        ELSE \E f \in MockShades(sc.v) : \E g \in MockShades(sc.v) :
               LET pixelMap == MockPixelMap(f, g)
                   v == validatePixelMap(pixelMap, 50, 70)
               IN /\ shadeCount' = [shadeCount EXCEPT ![r] = sc]
                  /\ conv' = [conv EXCEPT ![r] =
                                [pixelMap |-> pixelMap, greyscaleImageData |-> JsUndefined]]
                  /\ valid' = [valid EXCEPT ![r] = v]
                  /\ IF MockRejected(v)
                     THEN Respond(r, ErrorResponse(500, "PROCESSING_ERROR",
                            IF v = "false" THEN "La carte de pixels generee est invalide"
                            ELSE "Une erreur s'est produite lors du traitement de l'image"))
                     ELSE IF format = JsStr(StrCsv)
                     THEN \E t \in Times : Respond(r, CsvResponse(pixelMap, t))
                     ELSE IF format = JsStr(StrPdf)
                     THEN \E t \in Times : Respond(r, PdfResponse(pixelMap, sc, t))
                     ELSE \E t \in Times : Respond(r, JsonResponse(pixelMap, sc, t))
  /\ UNCHANGED <<loading, decodes, validateVars, convertVars, textVars, variantVars, frontVars>>

\* the route answered by either build
NextMock ==
  \/ \E b \in Bodies : Receive("a", b)
  \/ DecodeFails("a")
  \/ DecodeSucceeds("a")
  \/ \E b \in Bodies : MockConvert("a", b)

SpecMock == Init /\ [][NextMock]_vars

(***************************************************************************)
(* Two requests at a time.  A handler runs without interruption up to its  *)
(* await and from there to its response, so the steps of two requests      *)
(* interleave at the await of base64ToImageData.                           *)
(***************************************************************************)
PairBodies ==
  [imageData : {JsStr(<<"white">>), JsStr(<<PngPrefix, "greys">>), JsStr(<<"red">>),
                JsStr(<<"garbage">>)},
   shades : {JsInt(9), JsInt(12)},
   format : {JsUndefined, JsStr(StrCsv)}]

NextPair ==
  \E r \in Requests :
    \/ \E b \in PairBodies : Receive(r, b)
    \/ DecodeFails(r)
    \/ DecodeSucceeds(r)

SpecPair == Init /\ [][NextPair]_vars

\* two requests to the serverless build, which has no await
MockPairBodies ==
  [imageData : {JsStr(<<"white">>), JsStr(<<"red">>)},
   shades : {JsUndefined, JsInt(9)},
   format : {JsUndefined}]

NextPairMock == \E r \in Requests : \E b \in MockPairBodies : MockConvert(r, b)

SpecPairMock == Init /\ [][NextPairMock]_vars

(***************************************************************************)
(* validatePixelMap alone.  A call starts from a rectangular map of the    *)
(* expected size filled with one shade; the caller may change the map      *)
(* before the call.                                                        *)
(***************************************************************************)
UniformRow(w, fill) == JsArr([x \in 1..w |-> JsInt(fill)])
UniformMap(w, h, fill) == JsArr([y \in 1..h |-> UniformRow(w, fill)])

FillInputs == {0, 5, 9}

CellInputs ==
  {JsInt(-1), JsInt(3), JsInt(9), JsInt(10), JsInt(11), JsInt(12),
   JsFrac(3), JsFrac(-1), JsNaN, JsNull, JsUndefined, JsStr(<<"3">>)}

NonArrayInputs == {JsNull, JsUndefined, JsInt(2), JsStr(<<"0", "0">>)}

InitValidate ==
  /\ HandlerInit
  /\ ConvertIdle
  /\ TextIdle
  /\ VariantIdle
  /\ FrontIdle
  /\ vWidth \in 1..MaxDim
  /\ vHeight \in 1..MaxDim
  /\ vShades \in 9..12
  /\ vMap \in {UniformMap(vWidth, vHeight, fill) : fill \in FillInputs}
  /\ vDefects = 0
  /\ vResult = "none"

\* the map is changed into m
Change(m) ==
  /\ vResult = "none"
  /\ vDefects < MaxDefects
  /\ vMap' = m
  /\ vDefects' = vDefects + 1
  /\ UNCHANGED <<handlerVars, convertVars, textVars, variantVars, frontVars, vWidth, vHeight, vShades, vResult>>

Without(s, i) == [j \in 1..(Len(s) - 1) |-> IF j < i THEN s[j] ELSE s[j + 1]]

SetCell ==
  /\ IsArray(vMap)
  /\ \E y \in 1..Len(vMap.v) :
       /\ IsArray(vMap.v[y])
       /\ \E x \in 1..Len(vMap.v[y].v) : \E val \in CellInputs :
            Change(JsArr([vMap.v EXCEPT ![y] = JsArr([@.v EXCEPT ![x] = val])]))

RemoveRow ==
  /\ IsArray(vMap)
  /\ \E y \in 1..Len(vMap.v) : Change(JsArr(Without(vMap.v, y)))

AppendRow ==
  /\ IsArray(vMap)
  /\ Change(JsArr(Append(vMap.v, UniformRow(vWidth, 0))))

ReplaceRow ==
  /\ IsArray(vMap)
  /\ \E y \in 1..Len(vMap.v) : \E val \in NonArrayInputs :
       Change(JsArr([vMap.v EXCEPT ![y] = val]))

RemoveCell ==
  /\ IsArray(vMap)
  /\ \E y \in 1..Len(vMap.v) :
       /\ IsArray(vMap.v[y])
       /\ Len(vMap.v[y].v) > 0
       /\ Change(JsArr([vMap.v EXCEPT ![y] = JsArr(Without(@.v, Len(@.v)))]))

AppendCell ==
  /\ IsArray(vMap)
  /\ \E y \in 1..Len(vMap.v) :
       /\ IsArray(vMap.v[y])
       /\ Change(JsArr([vMap.v EXCEPT ![y] = JsArr(Append(@.v, JsInt(0)))]))

ReplaceMap ==
  /\ vResult = "none"
  /\ \E val \in NonArrayInputs : Change(val)

\* validatePixelMap(pixelMap, expectedWidth, expectedHeight) is called
Validate ==
  /\ vResult = "none"
  /\ vResult' = validatePixelMap(vMap, vWidth, vHeight)
  /\ UNCHANGED <<handlerVars, convertVars, textVars, variantVars, frontVars, vMap, vWidth, vHeight, vShades, vDefects>>

NextValidate ==
  \/ SetCell
  \/ RemoveRow
  \/ AppendRow
  \/ ReplaceRow
  \/ RemoveCell
  \/ AppendCell
  \/ ReplaceMap
  \/ Validate

SpecValidate == InitValidate /\ [][NextValidate]_vars

(***************************************************************************)
(* isGreyscale and convertToPixelMap alone, on an image of the size of the *)
(* call whose pixels alternate between two values.                         *)
(***************************************************************************)
GreyLevels == {0, 28, 57, 85, 113, 128, 142, 170, 198, 227, 255}
GreyPixel(n) == <<n, n, n, 255>>

PixelInputs ==
  {GreyPixel(n) : n \in GreyLevels}
  \cup {Red, Edge, <<5, 5, 9, 255>>, <<40, 40, 40, 25>>}

Checkered(w, h, p, q) ==
  Picture(w, h, [i \in 1..(w * h) |-> IF i % 2 = 1 THEN p ELSE q])

InitConvert ==
  /\ HandlerInit
  /\ ValidateIdle
  /\ TextIdle
  /\ VariantIdle
  /\ FrontIdle
  /\ cWidth \in 1..MaxImg
  /\ cHeight \in 1..MaxImg
  /\ cImage \in {Checkered(cWidth, cHeight, p, q) : p, q \in PixelInputs}
  /\ cOriginal = cImage.data
  /\ cGrey = "none"
  /\ cOut = NoConv
  /\ cAgain = NoConv

\* isGreyscale(imageData) is called; it assigns to nothing but its locals
Classify ==
  /\ cGrey = "none"
  /\ cGrey' = IF isGreyscale(cImage) THEN "true" ELSE "false"
  /\ UNCHANGED <<handlerVars, validateVars, textVars, variantVars, frontVars,
                 cImage, cOriginal, cWidth, cHeight, cOut, cAgain>>

\* the buffer that the writes data[idx] = ... reach when data is the buffer
\* of the caller itself
DataAfterShared(input, written) == written
\* imageData.data after the call: data is new Uint8ClampedArray(imageData.data),
\* so the writes data[idx] = ... reach the copy alone
DataAfter(input, written) == input

\* convertToPixelMap(imageData, width, height) is called
Convert ==
  /\ cOut = NoConv
  /\ LET c == convertToPixelMap(cImage, cWidth, cHeight)
     IN /\ cOut' = c
        /\ cImage' = [cImage EXCEPT !.data = DataAfter(@, c.greyscaleImageData.data)]
  /\ UNCHANGED <<handlerVars, validateVars, textVars, variantVars, frontVars,
                 cOriginal, cWidth, cHeight, cGrey, cAgain>>

\* convertToPixelMap(greyscaleImageData, width, height) is called for the
\* display buffer of the first call
Requantize ==
  /\ cOut # NoConv
  /\ cAgain = NoConv
  /\ cAgain' = convertToPixelMap(cOut.greyscaleImageData, cWidth, cHeight)
  /\ UNCHANGED <<handlerVars, validateVars, textVars, variantVars, frontVars,
                 cImage, cOriginal, cWidth, cHeight, cGrey, cOut>>

NextConvert ==
  \/ Classify
  \/ Convert
  \/ Requantize

SpecConvert == InitConvert /\ [][NextConvert]_vars

(***************************************************************************)
(* The two versions of convertToPixelMap side by side: the one of          *)
(* src/utils/imageProcessor.js and the pass-through one, which always      *)
(* reads the red channel and returns the bytes of the image as the display *)
(* buffer.  The buffer of the image may lack bytes at its end.             *)
(***************************************************************************)
\* the same test one byte further: if (idx + 4 >= data.length)
OutOfBoundsEarly(idx, data) == idx + 4 >= Len(data)

\* if (idx + 3 >= data.length)
OutOfBounds(idx, data) == idx + 3 >= Len(data)

\* the pass-through convertToPixelMap(imageData, width, height)
convertToPixelMapPassThrough(imageData, width, height) ==
  IF imageData.width = 0 \/ imageData.height = 0
  THEN [pixelMap |-> JsArr(<<>>), greyscaleImageData |-> JsNull]
  ELSE LET data == imageData.data
           final == Stored([p \in 1..(width * height) |->
                              IF OutOfBounds((p - 1) * 4, data) THEN JsInt(9)
                              ELSE FinalShade(Grey(data, (p - 1) * 4, TRUE))])
       IN [pixelMap |-> JsArr(PixelRows(final, width, height)),
           greyscaleImageData |-> [data |-> data, width |-> width, height |-> height]]

\* the image without the last n bytes of its buffer
Truncated(img, n) == [img EXCEPT !.data = SubSeq(@, 1, Max(Len(@) - n, 0))]

InitVariant ==
  /\ HandlerInit
  /\ ValidateIdle
  /\ ConvertIdle
  /\ TextIdle
  /\ FrontIdle
  /\ xWidth \in 1..MaxImg
  /\ xHeight \in 1..MaxImg
  /\ xImage \in {Truncated(Checkered(xWidth, xHeight, p, q), n) :
                    p \in PixelInputs, q \in PixelInputs, n \in 0..MaxShort}
  /\ xMain = NoConv
  /\ xMainValid = "none"
  /\ xVariant = NoConv
  /\ xVariantValid = "none"

\* convertToPixelMap and validatePixelMap of src/utils/imageProcessor.js
ConvertMain ==
  /\ xMain = NoConv
  /\ LET c == convertToPixelMap(xImage, xWidth, xHeight)
     IN /\ xMain' = c
        /\ xMainValid' = validatePixelMap(c.pixelMap, xWidth, xHeight)
  /\ UNCHANGED <<handlerVars, validateVars, convertVars, textVars, frontVars,
                 xImage, xWidth, xHeight, xVariant, xVariantValid>>

\* the pass-through convertToPixelMap and its validatePixelMap
ConvertPassThrough ==
  /\ xVariant = NoConv
  /\ LET c == convertToPixelMapPassThrough(xImage, xWidth, xHeight)
     IN /\ xVariant' = c
        /\ xVariantValid' = validatePixelMap(c.pixelMap, xWidth, xHeight)
  /\ UNCHANGED <<handlerVars, validateVars, convertVars, textVars, frontVars,
                 xImage, xWidth, xHeight, xMain, xMainValid>>

NextVariant ==
  \/ ConvertMain
  \/ ConvertPassThrough

SpecVariant == InitVariant /\ [][NextVariant]_vars

(***************************************************************************)
(* The front end that converts an image as soon as it is selected.  Each   *)
(* selection goes through its FileReader, the load of its Image and its    *)
(* request to /api/convert; the callbacks and responses of several         *)
(* selections come in any order.                                           *)
(***************************************************************************)
\* the image files that the user selects, of one colour each
FrontFiles == {"white", "red"}

\* a pixel of a canvas that nothing was drawn on
Transparent == <<0, 0, 0, 0>>

\* what ctx.drawImage(currentImage, 0, 0, 50, 70) puts on the canvas: the
\* image, or nothing when the Image has not loaded yet
Drawn ==
  [white |-> SourceImages["white"],
   red |-> SourceImages["red"],
   blank |-> Picture(1, 1, <<Transparent>>)]

\* result.data.pixelMap of the response to the request for each canvas:
\* shades is 10 and format is json, and the PNG of a canvas is decoded
ServerPixelMap ==
  [name \in DOMAIN Drawn |->
     convertToPixelMap(Resample(Drawn[name], targetWidth, targetHeight),
                       targetWidth, targetHeight).pixelMap]

\* printImageData: shadeValue = 255 - (pixelMap[y][x] * 255 / 9) in R, G, B
\* and 255 in alpha
PrintImageData ==
  [name \in DOMAIN Drawn |->
     [width |-> targetWidth, height |-> targetHeight,
      data |-> Stored([i \in 1..(targetWidth * targetHeight * 4) |->
                 LET p == (i - 1) \div 4
                 IN IF (i - 1) % 4 = 3 THEN 255
                    ELSE DisplayGrey(ServerPixelMap[name]
                                       .v[(p \div targetWidth) + 1]
                                       .v[(p % targetWidth) + 1].v)])]]

\* the page is open and no file is selected
InitFront ==
  /\ HandlerInit
  /\ ValidateIdle
  /\ ConvertIdle
  /\ TextIdle
  /\ VariantIdle
  /\ FrontIdle

\* handleFileSelect for an image file: reader.readAsDataURL(file)
handleFileSelect(file) ==
  /\ Len(selections) < MaxSelect
  /\ selections' = Append(selections, [file |-> file, stage |-> "reading", sent |-> "none"])
  /\ UNCHANGED <<handlerVars, validateVars, convertVars, textVars, variantVars,
                 currentImage, storedPixelMap, storedGreyscale>>

\* reader.onload of the selection k: currentImage = new Image() and its
\* src is set
ReaderOnload(k) ==
  /\ k \in DOMAIN selections
  /\ selections[k].stage = "reading"
  /\ currentImage' = k
  /\ selections' = [selections EXCEPT ![k].stage = "loading"]
  /\ UNCHANGED <<handlerVars, validateVars, convertVars, textVars, variantVars,
                 storedPixelMap, storedGreyscale>>

\* the onload of the Image of the selection k: convertImageAutomatically()
\* up to its await fetch, which draws the currentImage of that moment
convertImageAutomatically(k) ==
  /\ k \in DOMAIN selections
  /\ selections[k].stage = "loading"
  /\ currentImage # 0
  /\ LET loaded == currentImage = k \/ selections[currentImage].stage # "loading"
     IN selections' = [selections EXCEPT
                         ![k].stage = "requested",
                         ![k].sent = IF loaded THEN selections[currentImage].file
                                     ELSE "blank"]
  /\ UNCHANGED <<handlerVars, validateVars, convertVars, textVars, variantVars,
                 currentImage, storedPixelMap, storedGreyscale>>

\* the response to the request of the selection k arrives:
\* convertImageAutomatically from its await to its end
ResponseArrives(k) ==
  /\ k \in DOMAIN selections
  /\ selections[k].stage = "requested"
  /\ storedPixelMap' = ServerPixelMap[selections[k].sent]
  /\ storedGreyscale' = PrintImageData[selections[k].sent]
  /\ selections' = [selections EXCEPT ![k].stage = "done"]
  /\ UNCHANGED <<handlerVars, validateVars, convertVars, textVars, variantVars,
                 currentImage>>

NextFront ==
  \/ \E file \in FrontFiles : handleFileSelect(file)
  \/ \E k \in 1..MaxSelect : ReaderOnload(k)
  \/ \E k \in 1..MaxSelect : convertImageAutomatically(k)
  \/ \E k \in 1..MaxSelect : ResponseArrives(k)

SpecFront == InitFront /\ [][NextFront]_vars

(***************************************************************************)
(* pixelMapToText alone, on a map whose cells alternate between two        *)
(* shades.                                                                 *)
(***************************************************************************)
\* s without padding
PadStartNone(s, n, c) == s
\* s.padStart(n, c)
RECURSIVE PadStart(_, _, _)
PadStart(s, n, c) == IF Len(s) >= n THEN s ELSE PadStart(<<c>> \o s, n, c)

\* 'Carte de Pixels ('
TextTitle ==
  <<"C", "a", "r", "t", "e", " ", "d", "e", " ", "P", "i", "x", "e", "l", "s", " ", "(">>
\* ') - 10 Nuances\n'
TextNuances ==
  <<")", " ", "-", " ", "1", "0", " ", "N", "u", "a", "n", "c", "e", "s", "\n">>
\* 'Genere: ', written with its accents in the source
TextDateLabel == <<"G", "e", "n", "e", "r", "e", ":", " ">>

\* pixelMap[y].map(val => val.toString().padStart(2, '0')).join(' ')
RowText(row) ==
  Concat([x \in 1..Len(row.v) |->
            LET cell == PadStart(ElementToString(row.v[x]), 2, "0")
            IN IF x = 1 THEN cell ELSE <<" ">> \o cell], 1, Len(row.v))

pixelMapToText(pixelMap, t) ==
  TextTitle \o IntToString(Len(pixelMap.v[1].v)) \o <<"x">>
     \o IntToString(Len(pixelMap.v)) \o TextNuances
  \o TextDateLabel \o LocaleString(t) \o <<"\n", "\n">>
  \o Concat([y \in 1..Len(pixelMap.v) |-> RowText(pixelMap.v[y]) \o <<"\n">>],
            1, Len(pixelMap.v))

\* the shades of the maps given to pixelMapToText
TextCells == 0..11

AlternatingMap(w, h, f, g) ==
  JsArr([y \in 1..h |-> JsArr([x \in 1..w |-> JsInt(IF (x + y) % 2 = 0 THEN f ELSE g)])])

InitText ==
  /\ HandlerInit
  /\ ValidateIdle
  /\ ConvertIdle
  /\ VariantIdle
  /\ FrontIdle
  /\ tMap \in {AlternatingMap(w, h, f, g) : w, h \in 1..MaxDim, f, g \in TextCells}
  /\ tText = <<>>

\* pixelMapToText(pixelMap) is called at the time t
ExportText ==
  /\ tText = <<>>
  /\ \E t \in Times : tText' = pixelMapToText(tMap, t)
  /\ UNCHANGED <<handlerVars, validateVars, convertVars, variantVars, frontVars, tMap>>

NextText == ExportText

SpecText == InitText /\ [][NextText]_vars

(***************************************************************************)
(* Properties                                                              *)
(***************************************************************************)
\* the request r got exactly one response, the error code with the status
RefusedWith(r, status, code) ==
  /\ Len(res[r]) = 1
  /\ res[r][1].status = status
  /\ res[r][1].type = "application/json"
  /\ res[r][1].body.success = FALSE
  /\ res[r][1].body.error.code = code

\* the request r got exactly one response, of the status 200 and the type
SucceededWith(r, type) ==
  /\ Len(res[r]) = 1
  /\ res[r][1].status = 200
  /\ res[r][1].type = type

\* the request r was received with image data
HasImageData(r) == pc[r] # "idle" /\ ~Falsy(body[r].imageData)

\* c is an integer with 0 <= c < n
CellBelow(c, n) == c.k = "int" /\ 0 <= c.v /\ c.v < n

\* C1: every cell of the pixel map returned for a request is an integer c
\* with 0 <= c < shadeCount, the accepted shade count of the request.
C1_CellsBelowShadeCount ==
  \A r \in Requests :
    SucceededWith(r, "application/json") =>
      LET rows == res[r][1].body.data.pixelMap.v
      IN \A y \in 1..Len(rows) : \A x \in 1..Len(rows[y].v) :
           CellBelow(rows[y].v[x], shadeCount[r].v)

\* C2: the pixel map of every conversion has targetHeight = 70 rows, each
\* of targetWidth = 50 cells, whatever the size of the encoded image.
C2_Rectangular ==
  \A r \in Requests :
    conv[r] # NoConv =>
      /\ IsArray(conv[r].pixelMap)
      /\ Len(conv[r].pixelMap.v) = targetHeight
      /\ \A y \in 1..Len(conv[r].pixelMap.v) :
           /\ IsArray(conv[r].pixelMap.v[y])
           /\ Len(conv[r].pixelMap.v[y].v) = targetWidth

\* a request whose image is 3 pixels wide and 1 pixel high got its pixel map
C2_Witness ==
  \E r \in Requests :
    /\ body[r].imageData = JsStr(<<"mixed">>)
    /\ SourceImages["mixed"].width = 3 /\ SourceImages["mixed"].height = 1
    /\ SucceededWith(r, "application/json")
    /\ res[r][1].body.data.pixelMap = conv[r].pixelMap

\* the text is a decimal numeral, possibly after spaces
RECURSIVE IsNumeral(_)
IsNumeral(text) ==
  /\ text # <<>>
  /\ IF Head(text) = " " THEN IsNumeral(Tail(text))
     ELSE \A i \in 1..Len(text) : IsDigit(text[i])

\* the shades of a request are not a number, or a number outside [9, 12]
OutsideShades(shades) ==
  CASE shades.k = "int" -> shades.v < 9 \/ shades.v > 12
    [] shades.k = "frac" -> shades.v < 9 \/ shades.v >= 12
    [] shades.k = "string" ->
         \/ ~IsNumeral(shades.v)
         \/ parseInt(shades).v < 9
         \/ parseInt(shades).v > 12
    [] OTHER -> TRUE

\* C3: a request with image data whose shades are non-numeric or outside
\* [9, 12] is refused with INVALID_SHADES and the status 400 and no pixel
\* map is produced, and no request whose shades are an integer of 9..12 is
\* refused with INVALID_SHADES.
C3_ShadesChecked ==
  \A r \in Requests :
    (HasImageData(r) /\ body[r].shades.k # "undefined") =>
      /\ OutsideShades(body[r].shades) =>
           (RefusedWith(r, 400, "INVALID_SHADES") /\ conv[r] = NoConv)
      /\ (body[r].shades.k = "int" /\ body[r].shades.v \in 9..12) =>
           ~RefusedWith(r, 400, "INVALID_SHADES")

\* the request carries no image data: none at all, or the empty string
NoImageData(r) ==
  body[r].imageData.k \in {"undefined", "null"} \/ body[r].imageData = JsStr(<<>>)

\* C4: a received request without image data (absent or empty) is refused
\* with MISSING_IMAGE_DATA and the status 400, and it is never decoded or
\* converted.
C4_MissingImageDataRefused ==
  \A r \in Requests :
    (pc[r] # "idle" /\ NoImageData(r)) =>
      /\ pc[r] = "done"
      /\ RefusedWith(r, 400, "MISSING_IMAGE_DATA")
      /\ decodes[r] = 0
      /\ loading[r].base64Image = <<>>
      /\ conv[r] = NoConv
      /\ valid[r] = "none"

\* a request with an empty imageData, and with shades and a format that
\* would be refused too, was answered
C4_Witness ==
  \E r \in Requests :
    /\ pc[r] = "done"
    /\ body[r].imageData = JsStr(<<>>)
    /\ body[r].shades = JsInt(MaxShades)
    /\ body[r].format = JsStr(StrXml)
    /\ RefusedWith(r, 400, "MISSING_IMAGE_DATA")

\* the formats that the specification recognizes
SpecifiedFormats == {JsStr(StrJson), JsStr(StrCsv), JsStr(StrPdfText)}

\* C5: a request with image data and accepted shades is refused with
\* INVALID_FORMAT and the status 400 exactly when its format is none of
\* json, csv and pdf-text.
C5_FormatsChecked ==
  \A r \in Requests :
    (HasImageData(r) /\ ~InvalidShades(shadeCount[r]) /\ body[r].format.k = "string") =>
      (RefusedWith(r, 400, "INVALID_FORMAT") <=> body[r].format \notin SpecifiedFormats)

\* the validated map is no array, has not the expected number of rows, or
\* has a row that is no array or has not the expected number of cells
Malformed ==
  \/ ~IsArray(vMap)
  \/ Len(vMap.v) # vHeight
  \/ \E y \in 1..Len(vMap.v) : ~IsArray(vMap.v[y]) \/ Len(vMap.v[y].v) # vWidth

\* C6: validatePixelMap returns false, and does not throw, when the map is
\* no array, its number of rows differs from the expected height, or a row
\* is no array or has a length other than the expected width.
C6_MalformedRejected ==
  (vResult # "none" /\ Malformed) => vResult = "false"

\* a map that lost one of its rows was validated
C6_Witness ==
  /\ vResult = "false"
  /\ vDefects = 1
  /\ IsArray(vMap)
  /\ Len(vMap.v) = vHeight - 1
  /\ \A y \in 1..Len(vMap.v) : IsArray(vMap.v[y]) /\ Len(vMap.v[y].v) = vWidth

\* the validated map has a cell that is no integer of 0..vShades-1
HasCellOutside ==
  /\ IsArray(vMap)
  /\ \E y \in 1..Len(vMap.v) :
       /\ IsArray(vMap.v[y])
       /\ \E x \in 1..Len(vMap.v[y].v) : ~CellBelow(vMap.v[y].v[x], vShades)

\* C7: validatePixelMap returns false for a map with a cell that is no
\* integer, is negative, or is greater than or equal to the shade count of
\* the request, for every shade count of 9..12.
C7_CellsChecked ==
  (vResult # "none" /\ HasCellOutside) => vResult = "false"

\* C8: when validatePixelMap returns false for the generated pixel map the
\* request gets the one response PROCESSING_ERROR with the status 500, and
\* so no JSON or CSV export of the map.
C8_InvalidMapFails ==
  \A r \in Requests :
    valid[r] = "false" =>
      /\ pc[r] = "done"
      /\ RefusedWith(r, 500, "PROCESSING_ERROR")

\* a request for 12 shades whose generated map has a cell 11 was answered
C8_Witness ==
  \E r \in Requests :
    /\ pc[r] = "done"
    /\ valid[r] = "false"
    /\ shadeCount[r] = JsInt(12)
    /\ conv[r].pixelMap.v[1].v[1] = JsInt(11)
    /\ RefusedWith(r, 500, "PROCESSING_ERROR")

\* C9: the data of a successful JSON response has the fields pixelMap,
\* dimensions, shades and timestamp, where dimensions is 50 x 70, shades is
\* the validated shadeCount of the request, and pixelMap is the validated
\* map.
C9_JsonShape ==
  \A r \in Requests :
    SucceededWith(r, "application/json") =>
      LET data == res[r][1].body.data
      IN /\ res[r][1].body.success = TRUE
         /\ DOMAIN data = {"pixelMap", "dimensions", "shades", "timestamp"}
         /\ data.dimensions = [width |-> 50, height |-> 70]
         /\ data.shades = shadeCount[r]
         /\ data.shades.k = "int" /\ data.shades.v \in 9..12
         /\ data.pixelMap = conv[r].pixelMap
         /\ valid[r] = "true"
         /\ data.timestamp \in Times

\* a request for 12 shades got a JSON response
C9_Witness ==
  \E r \in Requests :
    /\ SucceededWith(r, "application/json")
    /\ body[r].shades = JsInt(12)
    /\ loading[r].base64Image = <<"greys">>
    /\ res[r][1].body.data.shades = JsInt(12)

\* the places of the line feeds of a text, in their order
LineEnds(text) ==
  LET nl == {i \in 1..Len(text) : text[i] = "\n"}
  IN Stored([k \in 1..Cardinality(nl) |->
               CHOOSE i \in nl : Cardinality({j \in nl : j < i}) = k - 1])

\* the k-th line of a text whose line feeds are at ends
Line(text, ends, k) ==
  SubSeq(text, IF k = 1 THEN 1 ELSE ends[k - 1] + 1, ends[k] - 1)

\* the decimal numerals of the cells of a row, separated by commas
RowLine(row) ==
  Concat([x \in 1..Len(row.v) |->
            IF x = 1 THEN IntToString(row.v[x].v)
            ELSE <<",">> \o IntToString(row.v[x].v)], 1, Len(row.v))

\* C10: the CSV export is a header of five lines that carries the
\* dimensions of the map as width x height and the shade count of the
\* conversion, followed by one line for each row of the map, in the order
\* of the rows, that is the cells of the row separated by commas.
C10_CsvExport ==
  \A r \in Requests :
    SucceededWith(r, "text/csv") =>
      LET text == res[r][1].body
          ends == LineEnds(text)
          rows == conv[r].pixelMap.v
      IN /\ text[Len(text)] = "\n"
         /\ Len(ends) = 5 + Len(rows)
         /\ Line(text, ends, 2) =
              DimensionsLabel \o IntToString(targetWidth) \o <<"x">>
              \o IntToString(targetHeight)
         /\ Line(text, ends, 3) =
              <<"N", "u", "a", "n", "c", "e", "s", ":", " ">>
              \o IntToString(shadeCount[r].v)
         /\ \A y \in 1..Len(rows) : Line(text, ends, 5 + y) = RowLine(rows[y])

\* C11: the text export has one line for each row of the map, after its
\* three header lines, in which every cell is written with exactly two
\* digits (a leading 0 below 10) and the cells are separated by one space.
C11_TextRows ==
  tText # <<>> =>
    LET ends == LineEnds(tText)
        rows == tMap.v
    IN /\ tText[Len(tText)] = "\n"
       /\ Len(ends) = 3 + Len(rows)
       /\ \A y \in 1..Len(rows) :
            LET line == Line(tText, ends, 3 + y)
                w == Len(rows[y].v)
            IN /\ Len(line) = 3 * w - 1
               /\ \A x \in 1..w :
                    /\ line[3 * x - 2] = Digit(rows[y].v[x].v \div 10)
                    /\ line[3 * x - 1] = Digit(rows[y].v[x].v % 10)
                    /\ x < w => line[3 * x] = " "

\* a map of two rows holding the cells 11 and 5 was exported
C11_Witness ==
  /\ tText # <<>>
  /\ Len(tMap.v) = 2
  /\ tMap.v[1].v = <<JsInt(11), JsInt(5)>>

\* every pixel of the image of the call has R = G = B
AllChannelsEqual ==
  \A p \in 0..(cWidth * cHeight - 1) :
    cOriginal[4 * p + 1] = cOriginal[4 * p + 2] /\ cOriginal[4 * p + 2] = cOriginal[4 * p + 3]

\* C12: isGreyscale returns true exactly when every pixel of the buffer has
\* R = G = B, and the buffer is the same after the call.
C12_GreyscaleExact ==
  cGrey # "none" =>
    /\ cGrey = "true" <=> AllChannelsEqual
    /\ cImage.data = cOriginal

\* an image whose pixels have R = G but another B was classified
C12_Witness ==
  /\ cGrey = "false"
  /\ \A p \in 0..(cWidth * cHeight - 1) :
       cOriginal[4 * p + 1] = cOriginal[4 * p + 2] /\ cOriginal[4 * p + 2] # cOriginal[4 * p + 3]

\* C16: for an image that is greyscale the display buffer that
\* convertToPixelMap returns equals the data of the image byte for byte.
C16_GreyscalePreserved ==
  (cOut # NoConv /\ AllChannelsEqual) => cOut.greyscaleImageData.data = cOriginal

\* C17: after convertToPixelMap every byte of the data of its imageData is
\* as before the call: the display buffer it returns is another buffer.
C17_InputUnchanged ==
  cOut # NoConv => cImage.data = cOriginal

\* a conversion returned a display buffer that differs from the image
C17_Witness ==
  /\ cOut # NoConv
  /\ cOut.greyscaleImageData.data # cOriginal
  /\ cImage.data = cOriginal

\* C19: converting the display buffer of a conversion gives the same pixel
\* map again, and every shade s of 0..9 is the shade of its display grey.
C19_Idempotent ==
  /\ \A s \in 0..9 :
       FinalShade([nan |-> FALSE, d |-> DInt(DisplayGrey(s))]) = JsInt(s)
  /\ cAgain # NoConv =>
       /\ isGreyscale(cOut.greyscaleImageData)
       /\ cAgain.pixelMap = cOut.pixelMap

\* the display buffer of an image that is not greyscale, with two shades,
\* was converted again
C19_Witness ==
  /\ cAgain # NoConv
  /\ ~AllChannelsEqual
  /\ cWidth * cHeight > 1
  /\ cOut.pixelMap.v[1].v[1] # cOut.pixelMap.v[cHeight].v[cWidth]

\* C13: two requests with the same image and the same shade count that get
\* a pixel map get the same pixel map.
C13_Deterministic ==
  \A r1 \in Requests : \A r2 \in Requests :
    (/\ conv[r1] # NoConv
     /\ conv[r2] # NoConv
     /\ body[r1].imageData = body[r2].imageData
     /\ shadeCount[r1] = shadeCount[r2])
    => conv[r1].pixelMap = conv[r2].pixelMap

\* what the request r gives when it runs alone: the conversion of the image
\* that its own imageData encodes
Alone(r) == Converted[StripDataUrl(body[r].imageData.v)[1]]

\* C14: when two requests interleave at the await of the decoder, the
\* pixel map and the display buffer of each request are those that the
\* request gives when it runs alone.
C14_NoSharedState ==
  \A r \in Requests :
    conv[r] # NoConv =>
      /\ conv[r].pixelMap = Alone(r).pixelMap
      /\ conv[r].greyscaleImageData = Alone(r).greyscaleImageData

\* two requests for different images were both converted
C14_Witness ==
  /\ pc["a"] = "done" /\ pc["b"] = "done"
  /\ conv["a"] # NoConv /\ conv["b"] # NoConv
  /\ body["a"].imageData = JsStr(<<"red">>)
  /\ body["b"].imageData = JsStr(<<PngPrefix, "greys">>)
  /\ conv["a"].pixelMap # conv["b"].pixelMap

\* the request r passed the checks of its parameters and its imageData is
\* a string that holds no image once the data-URL prefix is stripped
Undecodable(r) ==
  /\ pc[r] = "done"
  /\ body[r].imageData.k = "string"
  /\ body[r].imageData.v # <<>>
  /\ ~InvalidShades(parseInt(Default(body[r].shades, JsInt(10))))
  /\ ~InvalidFormat(Default(body[r].format, JsStr(StrJson)))
  /\ LET base64Image == StripDataUrl(body[r].imageData.v)
     IN base64Image = <<>> \/ Len(base64Image) # 1 \/ base64Image[1] \notin DOMAIN SourceImages

\* C15: a request whose encoded image is empty after the prefix is
\* stripped, or is no image, gets the one response PROCESSING_ERROR with
\* the status 500 and no pixel map, and no request is decoded more than
\* once.
C15_DecodeErrorReported ==
  \A r \in Requests :
    /\ decodes[r] <= 1
    /\ Undecodable(r) =>
         /\ RefusedWith(r, 500, "PROCESSING_ERROR")
         /\ decodes[r] = 1
         /\ conv[r] = NoConv

\* a request whose imageData is the data-URL prefix alone was answered
C15_Witness ==
  \E r \in Requests :
    /\ Undecodable(r)
    /\ body[r].imageData = JsStr(<<PngPrefix>>)
    /\ decodes[r] = 1

\* C18: a request without shades is converted for 10 shades, and its JSON
\* response reports shades = 10.
C18_DefaultShades ==
  \A r \in Requests :
    (pc[r] = "done" /\ body[r].shades.k = "undefined" /\ conv[r] # NoConv) =>
      /\ shadeCount[r] = JsInt(10)
      /\ SucceededWith(r, "application/json") => res[r][1].body.data.shades = JsInt(10)

\* (n - 1) - floor(grey * n / 256), clamped into 0..n-1
SpecifiedShade(grey, n) ==
  JsInt(Min(Max((n - 1) - DFloorDiv256(DMul(grey.d, n)), 0), n - 1))

\* C20: every cell of the pixel map of a request is
\* (shadeCount - 1) - floor(grey * shadeCount / 256), clamped into
\* 0..shadeCount-1, for the grey of its pixel and the shade count of the
\* request.
C20_ShadeFormula ==
  \A r \in Requests :
    (pc[r] = "done" /\ conv[r] # NoConv) =>
      LET img == LoadedImage[loading[r].base64Image[1]]
          alreadyGreyscale == isGreyscale(img)
          rows == conv[r].pixelMap.v
      IN \A y \in 1..targetHeight : \A x \in 1..targetWidth :
           rows[y].v[x] =
             SpecifiedShade(Grey(img.data, ((y - 1) * targetWidth + (x - 1)) * 4,
                                 alreadyGreyscale),
                            shadeCount[r].v)

\* every pixel of the image given to convertToPixelMap has the channels r, g, b
Solid(r, g, b) ==
  \A p \in 0..(cWidth * cHeight - 1) :
    cOriginal[4 * p + 1] = r /\ cOriginal[4 * p + 2] = g /\ cOriginal[4 * p + 3] = b

\* every cell of the pixel map that convertToPixelMap returned is the shade s
AllCells(s) ==
  \A y \in 1..cHeight : \A x \in 1..cWidth : cOut.pixelMap.v[y].v[x] = JsInt(s)

\* C21: every cell of the pixel map is 9 - floor(grey * 10 / 256) for the
\* grey of its pixel, which is its R channel when every pixel of the image
\* has R = G = B and 0.299 R + 0.587 G + 0.114 B otherwise; an image that is
\* red (255, 0, 0) everywhere gives the shade 7 in every cell.
C21_GreyValue ==
  cOut # NoConv =>
    /\ \A y \in 1..cHeight : \A x \in 1..cWidth :
         LET i == 4 * ((y - 1) * cWidth + (x - 1))
             grey == IF AllChannelsEqual
                     THEN DInt(cOriginal[i + 1])
                     ELSE DAdd(DAdd(DMul(D299, cOriginal[i + 1]),
                                    DMul(D587, cOriginal[i + 2])),
                               DMul(D114, cOriginal[i + 3]))
         IN cOut.pixelMap.v[y].v[x] = JsInt(9 - DFloorDiv256(DMul(grey, 10)))
    /\ Solid(255, 0, 0) => AllCells(7)

\* an image of 2 x 2 red pixels was converted to the shade 7 everywhere
C21_Witness ==
  /\ cOut # NoConv
  /\ cWidth = 2
  /\ cHeight = 2
  /\ Solid(255, 0, 0)
  /\ AllCells(7)

\* C22: an image that is white (255, 255, 255) everywhere gives the shade 0
\* in every cell and one that is black (0, 0, 0) everywhere the shade 9.
C22_ScaleEnds ==
  cOut # NoConv =>
    /\ Solid(255, 255, 255) => AllCells(0)
    /\ Solid(0, 0, 0) => AllCells(9)

\* a black image and a white image of several pixels were converted
C22_Witness ==
  /\ cOut # NoConv
  /\ cWidth * cHeight > 1
  /\ Solid(0, 0, 0)
  /\ AllCells(9)

\* C23: an image whose pixels are all (128, 128, 128) is classified as
\* greyscale, and every cell of its pixel map holds the same shade, an
\* integer of 0..9.
C23_MonochromeUniform ==
  Solid(128, 128, 128) =>
    /\ cGrey # "none" => cGrey = "true"
    /\ cOut # NoConv => \E s \in 0..9 : AllCells(s)

\* an image of several pixels (128, 128, 128) was classified and converted
C23_Witness ==
  /\ Solid(128, 128, 128)
  /\ cWidth * cHeight > 1
  /\ cGrey = "true"
  /\ cOut # NoConv
  /\ AllCells(4)

\* C24: for every pixel the display buffer of a request holds
\* 255 - shade * 255 / (shadeCount - 1), as a clamped byte, in R, G and B and
\* 255 in alpha, for the cell of the pixel and the shade count of the request.
C24_DisplayBuffer ==
  \A r \in Requests :
    (pc[r] = "done" /\ conv[r] # NoConv) =>
      LET n == shadeCount[r].v
          data == conv[r].greyscaleImageData.data
          rows == conv[r].pixelMap.v
      IN \A y \in 1..targetHeight : \A x \in 1..targetWidth :
           LET i == 4 * ((y - 1) * targetWidth + (x - 1))
               displayGrey == ToUint8Clamped(255 * (n - 1) - rows[y].v[x].v * 255, n - 1)
           IN /\ data[i + 1] = displayGrey
              /\ data[i + 2] = displayGrey
              /\ data[i + 3] = displayGrey
              /\ data[i + 4] = 255

\* C26: the handler tests the image data, then the shade count, then the
\* format, and decodes after the three tests: a request that fails a test
\* is answered 400 with the code of the first test it fails and its image
\* is not decoded, and a 400 is the answer to a failed test alone.
C26_CheckOrder ==
  \A r \in Requests :
    pc[r] # "idle" =>
      LET missing == MissingImageData(body[r].imageData)
          shades == InvalidShades(parseInt(Default(body[r].shades, JsInt(10))))
          format == InvalidFormat(Default(body[r].format, JsStr(StrJson)))
      IN /\ missing => RefusedWith(r, 400, "MISSING_IMAGE_DATA")
         /\ (~missing /\ shades) => RefusedWith(r, 400, "INVALID_SHADES")
         /\ (~missing /\ ~shades /\ format) => RefusedWith(r, 400, "INVALID_FORMAT")
         /\ (missing \/ shades \/ format) =>
              /\ pc[r] = "done"
              /\ decodes[r] = 0
              /\ loading[r].base64Image = <<>>
              /\ conv[r] = NoConv
         /\ (res[r] # <<>> /\ res[r][1].status = 400) => (missing \/ shades \/ format)

\* a request with an image that cannot be decoded, a shade count below 9
\* and an unknown format was answered INVALID_SHADES
C26_Witness ==
  \E r \in Requests :
    /\ body[r].imageData = JsStr(<<"garbage">>)
    /\ body[r].shades = JsInt(MinShades)
    /\ body[r].format = JsStr(StrXml)
    /\ RefusedWith(r, 400, "INVALID_SHADES")
    /\ decodes[r] = 0

\* C27: a request is answered exactly once: it has one response when its
\* handler has returned and none before, and a handler that waits for the
\* decoder can always go on to its response.
C27_AnsweredOnce ==
  \A r \in Requests :
    /\ Len(res[r]) = (IF pc[r] = "done" THEN 1 ELSE 0)
    /\ pc[r] = "decoding" => ENABLED (DecodeFails(r) \/ DecodeSucceeds(r))
    /\ pc[r] \in {"idle", "decoding", "done"}

\* a request was answered once with a CSV text
C27_Witness ==
  \E r \in Requests :
    /\ pc[r] = "done"
    /\ decodes[r] = 1
    /\ valid[r] = "true"
    /\ Len(res[r]) = 1
    /\ res[r][1].type = "text/csv"

\* the buffer of the image given to both versions has width * height * 4 bytes
ExactSize == Len(xImage.data) = xWidth * xHeight * 4

\* every pixel of the image given to both versions has R = G = B
VariantGreyscale ==
  \A p \in 0..(xWidth * xHeight - 1) :
    xImage.data[4 * p + 1] = xImage.data[4 * p + 2]
    /\ xImage.data[4 * p + 2] = xImage.data[4 * p + 3]

\* C25: for an image whose buffer is shorter than width * height * 4 bytes
\* the conversion fails: neither version of convertToPixelMap returns a
\* pixel map that validatePixelMap accepts.
C25_ShortBufferFails ==
  ~ExactSize =>
    /\ xMain # NoConv => xMainValid # "true"
    /\ xVariant # NoConv => xVariantValid # "true"

\* what validatePixelMap returns for the pixel map of each image that the
\* decoder can resolve with
ConvertedValid == [name \in DOMAIN SourceImages |->
                     validatePixelMap(Converted[name].pixelMap, targetWidth, targetHeight)]

\* C28: for an image whose buffer has exactly width * height * 4 bytes the
\* pixel map that convertToPixelMap returns is accepted by validatePixelMap,
\* and every request whose image was decoded and converted has a pixel map
\* that validatePixelMap accepts.
C28_ConvertedMapValid ==
  /\ (ExactSize /\ xMain # NoConv) => xMainValid = "true"
  /\ \A name \in DOMAIN SourceImages :
       ConvertedValid[name] = "true"

\* an image of several pixels with black, which has the shade 9, was
\* converted and its pixel map accepted
C28_Witness ==
  /\ ExactSize
  /\ xWidth * xHeight > 1
  /\ xMain # NoConv
  /\ xMainValid = "true"
  /\ xMain.pixelMap.v[1].v[1] = JsInt(9)

\* C29: for an image in which every pixel has R = G = B and whose buffer
\* has exactly width * height * 4 bytes both versions of convertToPixelMap
\* return the same pixel map.
C29_VariantsAgree ==
  (ExactSize /\ VariantGreyscale /\ xMain # NoConv /\ xVariant # NoConv) =>
    xMain.pixelMap = xVariant.pixelMap

\* both versions converted a greyscale image of two greys to two shades
C29_Witness ==
  /\ ExactSize
  /\ VariantGreyscale
  /\ xMain # NoConv
  /\ xVariant # NoConv
  /\ xWidth * xHeight > 1
  /\ xVariant.pixelMap.v[1].v[1] # xVariant.pixelMap.v[xHeight].v[xWidth]
  /\ xMain.pixelMap = xVariant.pixelMap

\* C30: when every selection made in the front end has had its response,
\* the stored pixel map and the stored display image are those of the file
\* of currentImage, the image selected last.
C30_LatestSelectionStored ==
  (/\ currentImage # 0
   /\ \A k \in DOMAIN selections : selections[k].stage = "done") =>
    /\ storedPixelMap = ServerPixelMap[selections[currentImage].file]
    /\ storedGreyscale = PrintImageData[selections[currentImage].file]

====
